---- MODULE Spec2Model ----
(***************************************************************************)
(* A model of asciidoctor-rs: the tokenizer of src/lexer.rs and the HTML   *)
(* generator of src/gen/html.rs.                                           *)
(*                                                                         *)
(* The tokenizer is modelled as a step machine.  Every function of         *)
(* impl Lexer is one definition; its control points are the labels kept in *)
(* the call stack, and one step runs the code between two calls.  Bytes    *)
(* are one-character strings.                                              *)
(***************************************************************************)
EXTENDS Integers, Sequences, FiniteSets, TLC

\* Size of the tokenizer's buffer.  The program uses 4096 (lexer.rs:33); the
\* model scales it down so that refills, stale bytes and the end of the
\* buffer are all met by short inputs, and keeps it large enough for the
\* source to deliver each input of the specification in one read.
BUFFER_SIZE == 24

\* Longest generated input (the inputs of Examples are longer).
MaxLen == 3

\* Number of pulls the caller makes at most.
MaxPulls == 4

-----------------------------------------------------------------------------
(* Bytes and inputs *)

\* The byte 0, which fills a new buffer.
NUL == "NUL"

\* The bytes generated inputs are made of: the bytes token() dispatches on
\* (the number sign and the apostrophe are left to Examples), one word
\* delimiter token() does not dispatch on, and one plain byte.
Alphabet == {"/", "<", "\n", "\r", " ", "*", "a"}

Min(a, b) == IF a < b THEN a ELSE b

RECURSIVE SeqsUpTo(_, _)
SeqsUpTo(S, n) ==
    IF n = 0 THEN {<<>>}
    ELSE LET shorter == SeqsUpTo(S, n - 1)
         IN  shorter \cup {Append(s, b) : s \in {t \in shorter : Len(t) = n - 1}, b \in S}

\* The inputs the specification names, and inputs that reach the comment scan.
ExSingleComment == <<"/", "/", " ", "h", "i", "d", "d", "e", "n", "\n", "w", "o", "r", "d">>
ExMultiComment ==
    <<"/", "/", "/", "/", "\n", "h", "i", "d", "d", "e", "n", "\n",
      "/", "/", "/", "/", "\n", "w", "o", "r", "d">>
ExMultiShort == <<"/", "/", "/", "/", "\n", "a", "\n", "/", "/", "/", "/", "\n", "a", " ">>
ExOpenOnly == <<"/", "/", "/", "/">>
ExEightSlashes == <<"/", "/", "/", "/", "/", "/", "/", "/", "\n", "a", " ">>
ExWords == <<"a", "b", " ", "c", "d", "\n">>
ExTripleLt == <<"<", "<", "<", "<", "a">>
ExTripleApos == <<"'", "'", "'", "'", "a">>
ExApos1 == <<"'">>
ExApos2 == <<"'", "'">>
ExApos3 == <<"'", "'", "'">>
ExAposThenByte == <<"\n", "'", "a">>
ExApos2ThenByte == <<"'", "'", "<">>
ExNumberSign == <<"#", "a", "#", "#">>
ExBufferEnd ==
    <<"a", "a", "a", "a", "a", "a", "a", "a", "a", "a", "a", "a", "a", "a", "a", "a",
      "a", "a", "a", "\n", "/", "/", "/", "/">>

Examples ==
    {ExSingleComment, ExMultiComment, ExMultiShort, ExOpenOnly, ExEightSlashes,
     ExWords, ExTripleLt, ExTripleApos, ExApos1, ExApos2, ExApos3, ExAposThenByte,
     ExApos2ThenByte, ExNumberSign, ExBufferEnd}

Inputs == SeqsUpTo(Alphabet, MaxLen) \cup Examples

-----------------------------------------------------------------------------
(* State *)

VARIABLES
    src,           \* reader: the bytes of the source
    rpos,          \* reader: how many of them it has delivered
    buffer,        \* Lexer.buffer
    buffer_index,  \* Lexer.buffer_index
    buffer_size,   \* Lexer.buffer_size
    column,        \* Lexer.column
    line,          \* Lexer.line
    stack,         \* call stack: the active calls, innermost last
    ret,           \* the value the last call returned
    panic,         \* "" or the message of the panic that aborted the program
    pulled,        \* what next() returned so far, with where the cursor was
    pull_from,     \* number of bytes consumed when the current pull began
    class_at       \* number of bytes consumed at the pull's last match on a byte

lexvars == <<src, rpos, buffer, buffer_index, buffer_size, column, line,
             stack, ret, panic, pulled, pull_from, class_at>>

VARIABLES
    gen_node,      \* gen: the node it is given
    gen_writer,    \* gen: the writer it is given, with what the sink accepted
    gen_result,    \* gen: "" before the call, then the Result it returned
    gen_html,      \* gen: the Html tree it built
    gen_writer2,   \* the writer of a second Html::write of the same tree
    gen_result2    \* "" before that call, then the Result it returned

genvars == <<gen_node, gen_writer, gen_result, gen_html, gen_writer2, gen_result2>>

vars == <<lexvars, genvars>>

\* Number of source bytes the cursor has passed: the delivered bytes less
\* the bytes of the buffer still ahead of the cursor.
Consumed ==
    rpos - (IF buffer_index < buffer_size THEN buffer_size - buffer_index ELSE 0)

-----------------------------------------------------------------------------
(* Values *)

NoPos == <<>>

\* A Result: Ok(()), Ok(byte), Ok(Token) or Err(ErrorKind).
Res(kind, byte, token, bytes, expected, pos) ==
    [kind |-> kind, byte |-> byte, token |-> token, bytes |-> bytes,
     expected |-> expected, pos |-> pos]

OkUnit == Res("Ok", "", "", <<>>, "", NoPos)
OkByte(b) == Res("Ok", b, "", <<>>, "", NoPos)
OkToken(t, bytes) == Res("Ok", "", t, bytes, "", NoPos)
ErrEof == Res("Eof", "", "", <<>>, "", NoPos)
ErrUnexpectedChar(actual, expected, p) == Res("UnexpectedChar", actual, "", <<>>, expected, p)
ErrMsg(char) == Res("Msg", char, "", <<>>, "", NoPos)

IsErr(r) == r.kind # "Ok"

Frame(pc, arg, start_index) == [pc |-> pc, arg |-> arg, start_index |-> start_index]

Top == stack[Len(stack)]

At(label) == panic = "" /\ stack # <<>> /\ Top.pc = label

-----------------------------------------------------------------------------
(* Control: calls and returns *)

\* What next() hands to the caller, with the cursor's place in the source.
Entry(r) ==
    [res |-> r, from |-> pull_from, at |-> class_at, to |-> Consumed,
     line |-> line, column |-> column]

\* Call a function: the caller resumes at retpc when it returns.
Call(retpc, frame) ==
    /\ stack' = [stack EXCEPT ![Len(stack)].pc = retpc] \o <<frame>>
    /\ UNCHANGED <<ret, pulled>>

\* Return r to the caller; the outermost call returns to the user of next().
Return(r) ==
    /\ stack' = SubSeq(stack, 1, Len(stack) - 1)
    /\ ret' = r
    /\ pulled' = IF Len(stack) = 1 THEN Append(pulled, Entry(r)) ELSE pulled

Goto(pc) ==
    /\ stack' = [stack EXCEPT ![Len(stack)].pc = pc]
    /\ UNCHANGED <<ret, pulled>>

NoMove == UNCHANGED <<rpos, buffer, buffer_index, buffer_size, column, line>>
Rest == UNCHANGED <<src, panic, pull_from, class_at, genvars>>

-----------------------------------------------------------------------------
(* impl Lexer *)

\* Lexer::new
new(reader) ==
    /\ src = reader
    /\ rpos = 0
    /\ buffer = [i \in 0..(BUFFER_SIZE - 1) |-> NUL]
    /\ buffer_index = BUFFER_SIZE
    /\ buffer_size = 0
    /\ column = 1
    /\ line = 1

\* pos with the coordinates in the wrong order.
pos_ColumnFirst == <<column, line>>

\* Lexer::pos
pos == <<line, column>>

\* advance with the column left running over a newline.
advance_NoColumnReset(actual) ==
    /\ buffer_index' = buffer_index + 1
    /\ column' = column + 1
    /\ line' = IF actual = "\n" THEN line + 1 ELSE line
    /\ UNCHANGED <<rpos, buffer, buffer_size>>

\* Lexer::advance
advance(actual) ==
    /\ buffer_index' = buffer_index + 1
    /\ IF actual = "\n"
       THEN line' = line + 1 /\ column' = 1
       ELSE column' = column + 1 /\ line' = line
    /\ UNCHANGED <<rpos, buffer, buffer_size>>

\* Read::read on the source: it delivers n bytes into the front of the buffer;
\* n is 0 only at the end of the source.
ReadSizes ==
    IF rpos = Len(src) THEN {0} ELSE 1..Min(Len(src) - rpos, BUFFER_SIZE)

read(n) ==
    /\ buffer' = [i \in 0..(BUFFER_SIZE - 1) |->
                    IF i < n THEN src[rpos + i + 1] ELSE buffer[i]]
    /\ rpos' = rpos + n

\* read_if_needed without its test: it reads at every call.
read_if_needed_NoGuard ==
    /\ At("read_if_needed")
    /\ \E n \in ReadSizes :
         /\ read(n)
         /\ buffer_size' = n
         /\ IF n = 0
            THEN buffer_index' = buffer_index /\ Return(ErrEof)
            ELSE buffer_index' = 0 /\ Return(OkUnit)
    /\ UNCHANGED <<column, line>>
    /\ Rest

\* read_if_needed that, at the end of the source, puts the cursor back at the
\* start of the bytes it holds.
read_if_needed_Rewind ==
    /\ At("read_if_needed")
    /\ IF buffer_index >= buffer_size
       THEN \E n \in ReadSizes :
              /\ read(n)
              /\ IF n = 0
                 THEN /\ buffer_size' = buffer_size
                      /\ buffer_index' = 0
                      /\ Return(ErrEof)
                 ELSE /\ buffer_size' = n
                      /\ buffer_index' = 0
                      /\ Return(OkUnit)
       ELSE /\ UNCHANGED <<rpos, buffer, buffer_index, buffer_size>>
            /\ Return(OkUnit)
    /\ UNCHANGED <<column, line>>
    /\ Rest

\* Lexer::read_if_needed
read_if_needed ==
    /\ At("read_if_needed")
    /\ IF buffer_index >= buffer_size
       THEN \E n \in ReadSizes :
              /\ read(n)
              /\ buffer_size' = n
              /\ IF n = 0
                 THEN buffer_index' = buffer_index /\ Return(ErrEof)
                 ELSE buffer_index' = 0 /\ Return(OkUnit)
       ELSE /\ UNCHANGED <<rpos, buffer, buffer_index, buffer_size>>
            /\ Return(OkUnit)
    /\ UNCHANGED <<column, line>>
    /\ Rest

\* Lexer::current_char
current_char ==
    \/ /\ At("current_char")
       /\ Call("current_char_1", Frame("read_if_needed", "", 0))
       /\ NoMove /\ Rest
    \/ /\ At("current_char_1")
       /\ IF IsErr(ret) THEN Return(ret) ELSE Return(OkByte(buffer[buffer_index]))
       /\ NoMove /\ Rest

\* eat that advances over the byte it rejects.
eat_ConsumesDeviating ==
    \/ /\ At("eat")
       /\ Call("eat_1", Frame("read_if_needed", "", 0))
       /\ NoMove /\ Rest
    \/ /\ At("eat_1")
       /\ IF IsErr(ret)
          THEN Return(ret)
          ELSE Call("eat_2", Frame("current_char", "", 0))
       /\ NoMove /\ Rest
    \/ /\ At("eat_2")
       /\ IF IsErr(ret)
          THEN Return(ret) /\ NoMove
          ELSE IF ret.byte = Top.arg
               THEN advance(ret.byte) /\ Return(OkUnit)
               ELSE advance(ret.byte) /\ Return(ErrUnexpectedChar(ret.byte, Top.arg, pos))
       /\ Rest

\* Lexer::eat
eat ==
    \/ /\ At("eat")
       /\ Call("eat_1", Frame("read_if_needed", "", 0))
       /\ NoMove /\ Rest
    \/ /\ At("eat_1")
       /\ IF IsErr(ret)
          THEN Return(ret)
          ELSE Call("eat_2", Frame("current_char", "", 0))
       /\ NoMove /\ Rest
    \/ /\ At("eat_2")
       /\ IF IsErr(ret)
          THEN Return(ret) /\ NoMove
          ELSE IF ret.byte = Top.arg
               THEN advance(ret.byte) /\ Return(OkUnit)
               ELSE Return(ErrUnexpectedChar(ret.byte, Top.arg, pos)) /\ NoMove
       /\ Rest

\* The predicates advance_while is called with.
NotNewline(c) == c # "\n"

\* The byte 0x60 (grave accent), which a string of this language cannot hold.
GRAVE == "GRAVE"

\* The bytes of the delimiter string of word().
WordDelimiters == {" ", "*", "_", GRAVE, "#", "[", "^", "~", ":", "\n", "\r", "\t"}

NotDelimiter(c) == c \notin WordDelimiters

Predicate(name, c) == IF name = "eol" THEN NotNewline(c) ELSE NotDelimiter(c)

\* Lexer::advance_while
advance_while ==
    \/ /\ At("advance_while")
       /\ Call("advance_while_1", Frame("read_if_needed", "", 0))
       /\ NoMove /\ Rest
    \/ /\ At("advance_while_1")
       /\ IF IsErr(ret)
          THEN Return(ret)
          ELSE Call("advance_while_2", Frame("current_char", "", 0))
       /\ NoMove /\ Rest
    \/ /\ At("advance_while_2")
       /\ IF IsErr(ret)
          THEN Return(ret) /\ NoMove
          ELSE IF ~Predicate(Top.arg, ret.byte)
               THEN Return(OkUnit) /\ NoMove
               ELSE advance(ret.byte) /\ Goto("advance_while")
       /\ Rest

\* Lexer::advance_to_eol
advance_to_eol ==
    \/ /\ At("advance_to_eol")
       /\ Call("advance_to_eol_1", Frame("advance_while", "eol", 0))
       /\ NoMove /\ Rest
    \/ /\ At("advance_to_eol_1")
       /\ Return(ret)
       /\ NoMove /\ Rest

\* The window self.buffer[buffer_index..buffer_index + 4] of comment().
Window == [i \in 1..4 |-> buffer[buffer_index + i - 1]]

comment_delim == <<"/", "/", "/", "/">>

\* Lexer::comment
comment ==
    \/ /\ At("comment")
       /\ Call("comment_1", Frame("eat", "/", 0))
       /\ NoMove /\ Rest
    \/ /\ At("comment_1")
       /\ IF IsErr(ret) THEN Return(ret) ELSE Call("comment_2", Frame("eat", "/", 0))
       /\ NoMove /\ Rest
    \/ /\ At("comment_2")
       /\ IF IsErr(ret) THEN Return(ret) ELSE Call("comment_3", Frame("current_char", "", 0))
       /\ NoMove /\ Rest
    \/ /\ At("comment_3")
       /\ IF IsErr(ret)
          THEN Return(ret)
          ELSE IF ret.byte = "/"
               THEN Call("comment_4", Frame("eat", "/", 0))
               ELSE Call("comment_single", Frame("advance_to_eol", "", 0))
       /\ NoMove /\ Rest
    \/ /\ At("comment_4")          \* the Result of eat is dropped
       /\ Call("comment_while", Frame("eat", "/", 0))
       /\ NoMove /\ Rest
    \/ /\ At("comment_while")      \* the Result of eat is dropped
       /\ buffer_index + Len(comment_delim) <= BUFFER_SIZE
       /\ IF Window # comment_delim
          THEN Call("comment_body", Frame("eat", "\n", 0))
          ELSE Return(OkUnit)
       /\ NoMove /\ Rest
    \/ /\ At("comment_while")      \* the slice ends past the buffer
       /\ buffer_index + Len(comment_delim) > BUFFER_SIZE
       /\ panic' = "range end index out of range for slice"
       /\ NoMove /\ UNCHANGED <<src, pull_from, class_at, stack, ret, pulled, genvars>>
    \/ /\ At("comment_body")
       /\ Call("comment_body_1", Frame("advance_to_eol", "", 0))
       /\ NoMove /\ Rest
    \/ /\ At("comment_body_1")
       /\ IF IsErr(ret) THEN Return(ret) ELSE Goto("comment_while")
       /\ NoMove /\ Rest
    \/ /\ At("comment_single")
       /\ IF IsErr(ret) THEN Return(ret) ELSE Return(OkUnit)
       /\ NoMove /\ Rest

\* Lexer::newline
newline ==
    \/ /\ At("newline")
       /\ Call("newline_1", Frame("eat", "\n", 0))
       /\ NoMove /\ Rest
    \/ /\ At("newline_1")
       /\ IF IsErr(ret) THEN Return(ret) ELSE Return(OkToken("NewLine", <<>>))
       /\ NoMove /\ Rest

\* Lexer::number_sign
number_sign ==
    \/ /\ At("number_sign")
       /\ Call("number_sign_1", Frame("eat", "#", 0))
       /\ NoMove /\ Rest
    \/ /\ At("number_sign_1")
       /\ IF IsErr(ret) THEN Return(ret) ELSE Return(OkToken("NumberSign", <<>>))
       /\ NoMove /\ Rest

\* Lexer::space
space ==
    \/ /\ At("space")
       /\ Call("space_1", Frame("eat", " ", 0))
       /\ NoMove /\ Rest
    \/ /\ At("space_1")
       /\ IF IsErr(ret) THEN Return(ret) ELSE Return(OkToken("Space", <<>>))
       /\ NoMove /\ Rest

\* The function token() hands the byte to.
Dispatch(actual) ==
    CASE actual = "/" -> "comment"
      [] actual = "<" -> "triple_lt"
      [] actual = "'" -> "triple_apos"
      [] actual = "\n" -> "newline"
      [] actual = "#" -> "number_sign"
      [] actual = " " -> "space"
      [] OTHER -> "word"

\* Lexer::token
token ==
    \/ /\ At("token")
       /\ Call("token_1", Frame("read_if_needed", "", 0))
       /\ NoMove /\ Rest
    \/ /\ At("token_1")
       /\ IF IsErr(ret) THEN Return(ret) ELSE Call("token_2", Frame("current_char", "", 0))
       /\ NoMove /\ Rest
    \/ /\ At("token_2")            \* b'/' => comment, then token
       /\ ~IsErr(ret) /\ ret.byte = "/"
       /\ Call("token_3", Frame("comment", "", 0))
       /\ class_at' = Consumed
       /\ NoMove /\ UNCHANGED <<src, panic, pull_from, genvars>>
    \/ /\ At("token_2")            \* b'\r' => advance, then token
       /\ ~IsErr(ret) /\ ret.byte = "\r"
       /\ advance(ret.byte)
       /\ Call("token_4", Frame("token", "", 0))
       /\ class_at' = Consumed
       /\ UNCHANGED <<src, panic, pull_from, genvars>>
    \/ /\ At("token_2")            \* current_char failed, or the other arms
       /\ IsErr(ret) \/ ret.byte \notin {"/", "\r"}
       /\ IF IsErr(ret)
          THEN Return(ret) /\ UNCHANGED class_at
          ELSE Call("token_4", Frame(Dispatch(ret.byte), "", 0)) /\ class_at' = Consumed
       /\ NoMove /\ UNCHANGED <<src, panic, pull_from, genvars>>
    \/ /\ At("token_3")
       /\ IF IsErr(ret) THEN Return(ret) ELSE Call("token_4", Frame("token", "", 0))
       /\ NoMove /\ Rest
    \/ /\ At("token_4")
       /\ Return(ret)
       /\ NoMove /\ Rest

\* Lexer::triple_apos
triple_apos ==
    \/ /\ At("triple_apos")
       /\ Call("triple_apos_1", Frame("eat", "'", 0))
       /\ NoMove /\ Rest
    \/ /\ At("triple_apos_1")
       /\ IF IsErr(ret) THEN Return(ret) ELSE Call("triple_apos_2", Frame("eat", "'", 0))
       /\ NoMove /\ Rest
    \/ /\ At("triple_apos_2")
       /\ IF IsErr(ret) THEN Return(ret) ELSE Call("triple_apos_3", Frame("eat", "'", 0))
       /\ NoMove /\ Rest
    \/ /\ At("triple_apos_3")
       /\ IF IsErr(ret) THEN Return(ret) ELSE Return(OkToken("TripleApos", <<>>))
       /\ NoMove /\ Rest

\* triple_lt with two calls of eat instead of three.
triple_lt_TwoOnly ==
    \/ /\ At("triple_lt")
       /\ Call("triple_lt_1", Frame("eat", "<", 0))
       /\ NoMove /\ Rest
    \/ /\ At("triple_lt_1")
       /\ IF IsErr(ret) THEN Return(ret) ELSE Call("triple_lt_3", Frame("eat", "<", 0))
       /\ NoMove /\ Rest
    \/ /\ At("triple_lt_3")
       /\ IF IsErr(ret) THEN Return(ret) ELSE Return(OkToken("TripleLt", <<>>))
       /\ NoMove /\ Rest

\* Lexer::triple_lt
triple_lt ==
    \/ /\ At("triple_lt")
       /\ Call("triple_lt_1", Frame("eat", "<", 0))
       /\ NoMove /\ Rest
    \/ /\ At("triple_lt_1")
       /\ IF IsErr(ret) THEN Return(ret) ELSE Call("triple_lt_2", Frame("eat", "<", 0))
       /\ NoMove /\ Rest
    \/ /\ At("triple_lt_2")
       /\ IF IsErr(ret) THEN Return(ret) ELSE Call("triple_lt_3", Frame("eat", "<", 0))
       /\ NoMove /\ Rest
    \/ /\ At("triple_lt_3")
       /\ IF IsErr(ret) THEN Return(ret) ELSE Return(OkToken("TripleLt", <<>>))
       /\ NoMove /\ Rest

\* The slice self.buffer[start_index..buffer_index] of word().
Slice(start_index, end_index) ==
    [i \in 1..(end_index - start_index) |-> buffer[start_index + i - 1]]

\* Lexer::word
word ==
    \/ /\ At("word")               \* let start_index = self.buffer_index
       /\ stack' = [stack EXCEPT ![Len(stack)] = Frame("word_1", "", buffer_index)]
                     \o <<Frame("advance_while", "word", 0)>>
       /\ UNCHANGED <<ret, pulled>>
       /\ NoMove /\ Rest
    \/ /\ At("word_1")             \* advance_while failed
       /\ IsErr(ret)
       /\ Return(ret)
       /\ NoMove /\ Rest
    \/ /\ At("word_1")             \* no byte was consumed
       /\ ~IsErr(ret) /\ buffer_index = Top.start_index
       /\ Call("word_2", Frame("current_char", "", 0))
       /\ NoMove /\ Rest
    \/ /\ At("word_1")
       /\ ~IsErr(ret) /\ buffer_index > Top.start_index
       /\ Return(OkToken("Word", Slice(Top.start_index, buffer_index)))
       /\ NoMove /\ Rest
    \/ /\ At("word_1")             \* the slice starts after its end
       /\ ~IsErr(ret) /\ buffer_index < Top.start_index
       /\ panic' = "slice index starts after its end"
       /\ NoMove /\ UNCHANGED <<src, pull_from, class_at, stack, ret, pulled, genvars>>
    \/ /\ At("word_2")
       /\ IF IsErr(ret) THEN Return(ret) ELSE Return(ErrMsg(ret.byte))
       /\ NoMove /\ Rest

\* Iterator::next for Lexer: the caller pulls one token.
next ==
    /\ panic = ""
    /\ stack = <<>>
    /\ Len(pulled) < MaxPulls
    /\ stack' = <<Frame("token", "", 0)>>
    /\ pull_from' = Consumed
    /\ class_at' = -1
    /\ NoMove /\ UNCHANGED <<src, panic, ret, pulled, genvars>>

-----------------------------------------------------------------------------
(* gen/html.rs: the document model it is given (node.rs) *)

\* Longest text, and longest attribute list, of a generated document.
MaxItems == 2
MaxAttrs == 2

\* Attribute
Id(value) == [attr |-> "Id", value |-> value]
Role(value) == [attr |-> "Role", value |-> value]

\* Item
Item_Mark(items, attributes) ==
    [item |-> "Mark", tag |-> "", items |-> items, attributes |-> attributes, word |-> ""]
Item_Space ==
    [item |-> "Space", tag |-> "", items |-> <<>>, attributes |-> <<>>, word |-> ""]
Item_Tag(t, items, attributes) ==
    [item |-> "Tag", tag |-> t, items |-> items, attributes |-> attributes, word |-> ""]
Item_Word(w) ==
    [item |-> "Word", tag |-> "", items |-> <<>>, attributes |-> <<>>, word |-> w]

\* Node
HorizontalRule == [node |-> "HorizontalRule", items |-> <<>>]
PageBreak == [node |-> "PageBreak", items |-> <<>>]
Paragraph(items) == [node |-> "Paragraph", items |-> items]

\* The generated documents.  A Tag is modelled by the element name its
\* to_string() prints (node.rs is not among the sources).
Tags == {"strong"}
Attributes == {Id("a"), Role("r")}
AttributeLists == SeqsUpTo(Attributes, MaxAttrs)
Inner == <<Item_Word("x")>>
Items ==
    {Item_Word("hi"), Item_Word("x"), Item_Space}
      \cup {Item_Mark(Inner, attributes) : attributes \in AttributeLists}
      \cup {Item_Tag(t, Inner, attributes) : t \in Tags, attributes \in AttributeLists}

\* Documents with two ids in one attribute list, which tell the first from
\* the last.
ExTwoIds == Paragraph(<<Item_Tag("strong", Inner, <<Id("b"), Id("a")>>)>>)
ExRoleThenIds ==
    Paragraph(<<Item_Word("x"), Item_Tag("strong", Inner, <<Role("r"), Id("a"), Id("b")>>)>>)
ExampleNodes == {ExTwoIds, ExRoleThenIds}

Nodes ==
    {HorizontalRule, PageBreak}
      \cup {Paragraph(items) : items \in SeqsUpTo(Items, MaxItems)}
      \cup ExampleNodes

-----------------------------------------------------------------------------
(* gen/html.rs: the Html tree *)

\* enum Html
A(id) == [html |-> "A", name |-> "", attributes |-> id, children |-> <<>>]
Div(attributes, children) ==
    [html |-> "Div", name |-> "", attributes |-> attributes, children |-> <<children>>]
Empty == [html |-> "Empty", name |-> "", attributes |-> "", children |-> <<>>]
Hr == [html |-> "Hr", name |-> "", attributes |-> "", children |-> <<>>]
Mark(children) == [html |-> "Mark", name |-> "", attributes |-> "", children |-> <<children>>]
P(children) == [html |-> "P", name |-> "", attributes |-> "", children |-> <<children>>]
Seq2(child1, child2) ==
    [html |-> "Seq", name |-> "", attributes |-> "", children |-> <<child1, child2>>]
SingleTextNode(string) ==
    [html |-> "SingleTextNode", name |-> "", attributes |-> string, children |-> <<>>]
Span(attributes, children) ==
    [html |-> "Span", name |-> "", attributes |-> attributes, children |-> <<children>>]
Tag(t, attributes, children) ==
    [html |-> "Tag", name |-> t, attributes |-> attributes, children |-> <<children>>]
TextNode(nodes) == [html |-> "TextNode", name |-> "", attributes |-> "", children |-> nodes]

\* macro attr!, with one name = value pair
attr(name, value) == name \o "=\"" \o value \o "\""

\* attributes_to_string with a space between two attributes.
RECURSIVE attributes_to_string_Spaced(_)
attributes_to_string_Spaced(attributes) ==
    IF attributes = <<>> THEN ""
    ELSE LET attribute == attributes[Len(attributes)]
             string == attributes_to_string_Spaced(SubSeq(attributes, 1, Len(attributes) - 1))
             sep == IF string = "" THEN "" ELSE " "
         IN  IF attribute.attr = "Id"
             THEN string \o sep \o ("id=\"" \o attribute.value \o "\"")
             ELSE string \o sep \o ("class=\"" \o attribute.value \o "\"")

\* attributes_to_string
RECURSIVE attributes_to_string(_)
attributes_to_string(attributes) ==
    IF attributes = <<>> THEN ""
    ELSE LET attribute == attributes[Len(attributes)]
             string == attributes_to_string(SubSeq(attributes, 1, Len(attributes) - 1))
         IN  IF attribute.attr = "Id"
             THEN string \o ("id=\"" \o attribute.value \o "\"")
             ELSE string \o ("class=\"" \o attribute.value \o "\"")

\* find_id_attribute returning the last Id of the list instead of the first.
RECURSIVE find_id_attribute_Last(_)
find_id_attribute_Last(attributes) ==
    IF attributes = <<>> THEN <<>>
    ELSE IF attributes[Len(attributes)].attr = "Id"
         THEN <<attributes[Len(attributes)].value>>
    ELSE find_id_attribute_Last(SubSeq(attributes, 1, Len(attributes) - 1))

\* find_id_attribute: Some(id) is <<id>>, None is <<>>
RECURSIVE find_id_attribute(_)
find_id_attribute(attributes) ==
    IF attributes = <<>> THEN <<>>
    ELSE IF attributes[1].attr = "Id" THEN <<attributes[1].value>>
    ELSE find_id_attribute(Tail(attributes))

div_a(attributes, children) == Div(attributes, children)
hr == Hr
mark(children) == Mark(children)
p(children) == P(children)
span_a(attributes, children) == Span(attributes, children)

\* Tag::to_string
to_string(t) == t

-----------------------------------------------------------------------------
(* gen/html.rs: trait HtmlGen, the default methods *)

RECURSIVE HtmlGen_item(_), HtmlGen_text(_), HtmlGen_mark(_, _), HtmlGen_tag(_, _, _)

\* HtmlGen::item
HtmlGen_item(it) ==
    CASE it.item = "Mark" -> HtmlGen_mark(it.items, it.attributes)
      [] it.item = "Space" -> SingleTextNode(" ")
      [] it.item = "Tag" -> HtmlGen_tag(it.tag, it.items, it.attributes)
      [] it.item = "Word" -> SingleTextNode(it.word)

\* text with the children in the opposite order.
HtmlGen_text_Reversed(items) ==
    TextNode([i \in 1..Len(items) |-> HtmlGen_item(items[Len(items) + 1 - i])])

\* HtmlGen::text
HtmlGen_text(items) ==
    TextNode([i \in 1..Len(items) |-> HtmlGen_item(items[i])])

\* HtmlGen::mark
HtmlGen_mark(items, attributes) ==
    LET children == HtmlGen_text(items)
    IN  IF attributes = <<>>
        THEN mark(children)
        ELSE span_a(attributes_to_string(attributes), children)

\* HtmlGen::tag
HtmlGen_tag(t, items, attributes) ==
    LET children == HtmlGen_text(items)
        tagged == Tag(t, attributes_to_string(attributes), children)
        found == find_id_attribute(attributes)
    IN  IF found # <<>> THEN Seq2(A(found[1]), tagged) ELSE tagged

\* HtmlGen::horizontal_rule
HtmlGen_horizontal_rule == hr

\* HtmlGen::page_break
HtmlGen_page_break == div_a(attr("style", "page-break-after: always;"), Empty)

\* HtmlGen::paragraph
HtmlGen_paragraph(items) == div_a(attr("class", "paragraph"), p(HtmlGen_text(items)))

\* HtmlGen::node
HtmlGen_node(n) ==
    CASE n.node = "HorizontalRule" -> HtmlGen_horizontal_rule
      [] n.node = "PageBreak" -> HtmlGen_page_break
      [] n.node = "Paragraph" -> HtmlGen_paragraph(n.items)

-----------------------------------------------------------------------------
(* gen/html.rs: serialization *)

\* A writer: the pieces the sink accepted, how many more writes it accepts
\* before it fails (-1: it never fails), whether a write failed, and how many
\* writes were issued after that.
Writer(accepts) == [out |-> <<>>, accepts |-> accepts, failed |-> FALSE, late |-> 0]

\* Write::write_all: an empty piece issues no write.
write_all(w, piece) ==
    IF piece = "" THEN w
    ELSE IF w.failed THEN [w EXCEPT !.late = @ + 1]
    ELSE IF w.accepts = 0 THEN [w EXCEPT !.failed = TRUE]
    ELSE [w EXCEPT !.out = Append(@, piece),
                   !.accepts = IF @ < 0 THEN @ ELSE @ - 1]

\* macro write!: the pieces of the format string and its arguments are
\* written in order, up to the first failure.
RECURSIVE write_fmt(_, _)
write_fmt(w, pieces) ==
    IF pieces = <<>> THEN w
    ELSE LET w1 == write_all(w, Head(pieces))
         IN  IF w1.failed THEN w1 ELSE write_fmt(w1, Tail(pieces))

\* write_text with a hidden state: it writes during the first serialization
\* only.
write_text_FirstTimeOnly(string, w) ==
    IF gen_result = "" THEN write_fmt(w, <<string>>) ELSE w

\* write_text
write_text(string, w) == write_fmt(w, <<string>>)

\* tag_a_without_child
tag_a_without_child(name, attributes, w) ==
    LET w1 == write_fmt(w, <<"<", name, " ", attributes, ">">>)
    IN  IF w1.failed THEN w1 ELSE write_fmt(w1, <<"</", name, ">">>)

RECURSIVE write(_, _), write_nodes(_, _), tag(_, _, _), tag_a(_, _, _, _)

\* tag
tag(name, children, w) ==
    LET w1 == write_fmt(w, <<"<", name, ">">>)
    IN  IF w1.failed THEN w1
        ELSE LET w2 == write(children, w1)
             IN  IF w2.failed THEN w2 ELSE write_fmt(w2, <<"</", name, ">">>)

\* tag_a going on after a failed write of the opening markup.
tag_a_NoAbort(name, attributes, children, w) ==
    LET w1 == write_fmt(w, <<"<", name, " ", attributes, ">">>)
        w2 == write(children, w1)
    IN  IF w2.failed THEN write_all(w2, "</") ELSE write_fmt(w2, <<"</", name, ">">>)

\* tag_a
tag_a(name, attributes, children, w) ==
    LET w1 == write_fmt(w, <<"<", name, " ", attributes, ">">>)
    IN  IF w1.failed THEN w1
        ELSE LET w2 == write(children, w1)
             IN  IF w2.failed THEN w2 ELSE write_fmt(w2, <<"</", name, ">">>)

\* The loop of the TextNode arm of Html::write.
write_nodes(nodes, w) ==
    IF nodes = <<>> THEN w
    ELSE LET w1 == write(Head(nodes), w)
         IN  IF w1.failed THEN w1 ELSE write_nodes(Tail(nodes), w1)

\* Html::write
write(h, w) ==
    CASE h.html = "A" -> tag_a_without_child("a", attr("id", h.attributes), w)
      [] h.html = "Div" -> tag_a("div", h.attributes, h.children[1], w)
      [] h.html = "Empty" -> w
      [] h.html = "Hr" -> write_text("<hr/>", w)
      [] h.html = "Mark" -> tag("mark", h.children[1], w)
      [] h.html = "P" -> tag("p", h.children[1], w)
      [] h.html = "Seq" ->
            LET w1 == write(h.children[1], w)
            IN  IF w1.failed THEN w1 ELSE write(h.children[2], w1)
      [] h.html = "SingleTextNode" -> write_text(h.attributes, w)
      [] h.html = "Span" -> tag_a("span", h.attributes, h.children[1], w)
      [] h.html = "Tag" -> tag_a(to_string(h.name), h.attributes, h.children[1], w)
      [] h.html = "TextNode" -> write_nodes(h.children, w)

\* gen
gen ==
    /\ gen_result = ""
    /\ LET html == HtmlGen_node(gen_node)
           w == write(html, gen_writer)
       IN  /\ gen_html' = html
           /\ gen_writer' = w
           /\ gen_result' = IF w.failed THEN "Err" ELSE "Ok"
    /\ UNCHANGED <<gen_node, gen_writer2, gen_result2, lexvars>>

\* Html::write, called once more on the tree gen built, with a new sink.
write_second ==
    /\ gen_result # ""
    /\ gen_result2 = ""
    /\ LET w == write(gen_html, gen_writer2)
       IN  /\ gen_writer2' = w
           /\ gen_result2' = IF w.failed THEN "Err" ELSE "Ok"
    /\ UNCHANGED <<gen_node, gen_writer, gen_result, gen_html, lexvars>>

\* The bytes a sequence of pieces makes.
RECURSIVE Bytes(_)
Bytes(pieces) == IF pieces = <<>> THEN "" ELSE Head(pieces) \o Bytes(Tail(pieces))

-----------------------------------------------------------------------------
(* Specifications *)

LexerIdle ==
    /\ stack = <<>>
    /\ ret = OkUnit
    /\ panic = ""
    /\ pulled = <<>>
    /\ pull_from = 0
    /\ class_at = -1

GenIdle ==
    /\ gen_node = HorizontalRule
    /\ gen_writer = Writer(-1)
    /\ gen_result = ""
    /\ gen_html = Empty
    /\ gen_writer2 = Writer(-1)
    /\ gen_result2 = ""

\* The tokenizer on every input, with every way the source splits its bytes.
Init ==
    /\ \E reader \in Inputs : new(reader)
    /\ LexerIdle
    /\ GenIdle

Next ==
    \/ next
    \/ token
    \/ comment
    \/ triple_lt
    \/ triple_apos
    \/ newline
    \/ number_sign
    \/ space
    \/ word
    \/ eat
    \/ advance_while
    \/ advance_to_eol
    \/ current_char
    \/ read_if_needed

Spec == Init /\ [][Next]_vars

\* The sinks a document is written to: one that never fails and, for a
\* document of at most two items, one for each write of its serialization,
\* which fails at that write.
Accepts(n) ==
    IF n.node = "Paragraph" /\ Len(n.items) > 2
    THEN {-1}
    ELSE -1..(Len(write(HtmlGen_node(n), Writer(-1)).out) - 1)

\* The generator on every document, with every sink.
GenInit ==
    /\ gen_node \in Nodes
    /\ gen_result = ""
    /\ \E accepts \in Accepts(gen_node) : gen_writer = Writer(accepts)
    /\ gen_html = Empty
    /\ gen_writer2 = Writer(-1)
    /\ gen_result2 = ""
    /\ new(<<>>)
    /\ LexerIdle

GenNext ==
    \/ gen
    \/ write_second

GenSpec == GenInit /\ [][GenNext]_vars

-----------------------------------------------------------------------------
(* Vocabulary of the properties *)

\* Token values
Word(bytes) == OkToken("Word", bytes)
NewLine == OkToken("NewLine", <<>>)
Space == OkToken("Space", <<>>)
TripleLt == OkToken("TripleLt", <<>>)
TripleApos == OkToken("TripleApos", <<>>)

Prefix(n) == SubSeq(src, 1, n)

\* The position after consuming the bytes of s from the start of the source.
LineOf(s) == 1 + Cardinality({i \in 1..Len(s) : s[i] = "\n"})

LastNewline(s) ==
    LET newlines == {i \in 1..Len(s) : s[i] = "\n"}
    IN  IF newlines = {} THEN 0 ELSE CHOOSE i \in newlines : \A j \in newlines : j <= i

ColumnOf(s) == 1 + Len(s) - LastNewline(s)

PosOf(s) == <<LineOf(s), ColumnOf(s)>>

\* The source is one run of plain word bytes: no delimiter, and no byte
\* token() hands to another rule.
PlainRun ==
    /\ src # <<>>
    /\ \A i \in 1..Len(src) : src[i] \notin WordDelimiters \cup {"/", "<", "'"}

-----------------------------------------------------------------------------
(* C1 *)

\* C1: a source that is one delimiter-free run yields exactly one Word token,
\* with the bytes of the run, also when the run is ended by the end of the
\* input: the first pull returns Word(run) and the second one Eof.
C1_OneWordPerRun ==
    PlainRun =>
        /\ Len(pulled) >= 1 => pulled[1].res = Word(src)
        /\ Len(pulled) >= 2 => pulled[2].res = ErrEof

-----------------------------------------------------------------------------
(* C2 *)

\* C2: on the input of ExSingleComment (a single-line comment, a newline, then
\* word) the first pull returns NewLine and the second one the Word token
\* word; the comment yields no token.
C2_SingleLineComment ==
    src = ExSingleComment =>
        /\ Len(pulled) >= 1 => pulled[1].res = NewLine
        /\ Len(pulled) >= 2 => pulled[2].res = Word(<<"w", "o", "r", "d">>)

-----------------------------------------------------------------------------
(* C3 *)

\* C3: on the input of ExMultiComment (a line of four slashes, hidden, a line of
\* four slashes, then word) the comment ends at the second line of four
\* slashes: the first pull returns NewLine and the second one the Word token
\* word.
C3_MultiLineComment ==
    src = ExMultiComment =>
        /\ Len(pulled) >= 1 => pulled[1].res = NewLine
        /\ Len(pulled) >= 2 => pulled[2].res = Word(<<"w", "o", "r", "d">>)

-----------------------------------------------------------------------------
(* C4 *)

\* C4: whenever the multi-line comment scan compares its four-byte window with
\* the delimiter, the window lies inside the filled part of the buffer.
C4_WindowInsideFilled ==
    At("comment_while") =>
        /\ buffer_index + Len(comment_delim) <= buffer_size
        /\ buffer_index + Len(comment_delim) <= BUFFER_SIZE

-----------------------------------------------------------------------------
(* C5 *)

\* The tracked position is that of the bytes consumed so far.
C5_PositionOfConsumed == pos = PosOf(Prefix(Consumed))

\* A step that changes the position consumes one byte.
C5_OneByteAtATime ==
    (line' # line \/ column' # column) =>
        /\ buffer_index' = buffer_index + 1
        /\ Consumed' = Consumed + 1

\* C5: at every point of every sequence of pulls, failed or not, and across
\* refills, the position is (1 + newlines consumed, 1 + bytes consumed since the
\* last newline consumed), and it changes only in a step that moves the cursor
\* over one byte.
C5_Position == []C5_PositionOfConsumed /\ [][C5_OneByteAtATime]_vars

\* A pull has failed, the buffer was refilled, and the cursor has passed a
\* carriage return and a newline and stands in the second line.
C5_Witness ==
    /\ \E i \in 1..Len(pulled) : IsErr(pulled[i].res)
    /\ rpos > buffer_size /\ buffer_size > 0
    /\ \E i \in 1..Consumed : src[i] = "\r"
    /\ line = 2 /\ column >= 2

-----------------------------------------------------------------------------
(* C6 *)

\* How many of the bytes after the first n bytes of the source are d, up to
\* three in a row.
RunLen(d, n) ==
    CHOOSE k \in 0..3 :
        /\ \A j \in 1..k : n + j <= Len(src) /\ src[n + j] = d
        /\ k = 3 \/ n + k + 1 > Len(src) \/ src[n + k + 1] # d

TripleOf(d) == IF d = "<" THEN TripleLt ELSE TripleApos

\* The pull of entry e handed the byte d to its triple rule.
Handed(e, d) == e.at >= 0 /\ e.at < Len(src) /\ src[e.at + 1] = d

\* C6, as amended: when the current byte is < (respectively an apostrophe), the
\* pull returns TripleLt (TripleApos) exactly when three such bytes follow one
\* another, and it has then consumed exactly these three; with fewer than
\* three, the pull consumes them and fails: with UnexpectedChar, naming the
\* deviating byte, the expected byte and the position of the deviating byte,
\* when another byte follows, and with Eof when the input ends there.
C6_TripleOrFailure ==
    \A i \in 1..Len(pulled) : \A d \in {"<", "'"} :
        LET e == pulled[i]
            k == RunLen(d, e.at)
        IN  /\ e.res = TripleOf(d) => Handed(e, d) /\ k = 3
            /\ Handed(e, d) =>
                 /\ e.to = e.at + k
                 /\ IF k = 3 THEN e.res = TripleOf(d)
                    ELSE IF e.at + k < Len(src)
                    THEN e.res = ErrUnexpectedChar(src[e.at + k + 1], d, PosOf(Prefix(e.at + k)))
                    ELSE e.res = ErrEof

\* C6, as claimed: with fewer than three such bytes in a row, followed by
\* another byte or by the end of the input, the pull fails with UnexpectedChar
\* whose expected byte is the delimiter byte.
C6_AlwaysUnexpectedChar ==
    \A i \in 1..Len(pulled) : \A d \in {"<", "'"} :
        LET e == pulled[i]
        IN  Handed(e, d) /\ RunLen(d, e.at) < 3 =>
                e.res.kind = "UnexpectedChar" /\ e.res.expected = d

\* One pull returned TripleLt and a later one failed on the byte after a
\* single <.
C6_Witness ==
    \E i, j \in 1..Len(pulled) :
        /\ i < j
        /\ pulled[i].res = TripleLt
        /\ pulled[j].res.kind = "UnexpectedChar"
        /\ pulled[j].res.expected = "<"
        /\ pulled[j].res.byte = "a"

-----------------------------------------------------------------------------
(* C7 *)

\* C7, as amended: an UnexpectedChar failure carries the position (line,
\* column) the tokenizer has when the pull fails; Eof and the zero-length-word
\* failure carry no position.
C7_UnexpectedCharCarriesPos ==
    \A i \in 1..Len(pulled) :
        LET e == pulled[i]
        IN  /\ e.res.kind = "UnexpectedChar" => e.res.pos = <<e.line, e.column>>
            /\ e.res.kind \in {"Eof", "Msg"} => e.res.pos = NoPos

\* C7, as claimed: every failure a pull returns carries the position the
\* tokenizer has when the pull fails.
C7_EveryFailureCarriesPos ==
    \A i \in 1..Len(pulled) :
        LET e == pulled[i]
        IN  IsErr(e.res) => e.res.pos = <<e.line, e.column>>

\* A pull failed with UnexpectedChar on the second byte of the second line.
C7_Witness ==
    \E i \in 1..Len(pulled) :
        /\ pulled[i].res.kind = "UnexpectedChar"
        /\ pulled[i].res.pos = <<2, 2>>
        /\ pulled[i].line = 2
        /\ pulled[i].column = 2

-----------------------------------------------------------------------------
(* C8 *)

\* C8: the zero-length-word failure is unreachable: on every input, no pull
\* fails with the diagnostic of word() for a word of no bytes.
C8_NoZeroLengthWord ==
    \A i \in 1..Len(pulled) : pulled[i].res.kind # "Msg"

-----------------------------------------------------------------------------
(* C9 *)

\* The bytes of a Word, Space or NewLine token; no bytes for anything else.
TokenBytes(r) ==
    CASE r.token = "Word" -> r.bytes
      [] r.token = "Space" -> <<" ">>
      [] r.token = "NewLine" -> <<"\n">>
      [] OTHER -> <<>>

RECURSIVE ConcatTokens(_)
ConcatTokens(n) ==
    IF n = 0 THEN <<>> ELSE ConcatTokens(n - 1) \o TokenBytes(pulled[n].res)

\* The source holds word bytes, spaces and newlines only: no comment, and no
\* byte that yields another kind of token.
WordsSpacesNewlines ==
    \A k \in 1..Len(src) :
        src[k] \in {" ", "\n"} \/ src[k] \notin WordDelimiters \cup {"/", "<", "'"}

\* C9, on the sources without comments: the bytes of the Word, Space and
\* NewLine tokens returned before the first Eof, in pull order, are the source.
C9_TokensReconstructInput ==
    WordsSpacesNewlines =>
        \A i \in 1..Len(pulled) :
            (pulled[i].res = ErrEof /\ \A j \in 1..(i - 1) : pulled[j].res # ErrEof)
                => ConcatTokens(i - 1) = src

-----------------------------------------------------------------------------
(* C10 *)

MarkWithId == Paragraph(<<Item_Mark(<<Item_Word("x")>>, <<Id("a")>>)>>)

AnchorPieces == <<"<", "a", " ", "id=\"a\"", ">", "</", "a", ">">>

\* C10: serializing the mark item with text x and the attribute Id a writes
\* the anchor with id a, then at once a span element holding x, and no mark
\* element.
C10_AnchorThenSpan ==
    (gen_node = MarkWithId /\ gen_result = "Ok") =>
        LET out == gen_writer.out
        IN  /\ \E i \in 1..Len(out) :
                 /\ i + 16 <= Len(out)
                 /\ SubSeq(out, i, i + 7) = AnchorPieces
                 /\ SubSeq(out, i + 8, i + 10) = <<"<", "span", " ">>
                 /\ SubSeq(out, i + 12, i + 16) = <<">", "x", "</", "span", ">">>
            /\ \A i \in 1..Len(out) : out[i] # "mark"

-----------------------------------------------------------------------------
(* C11 *)

IsId(attribute) == attribute.attr = "Id"
IsTagItem(it) == it.item = "Tag"

\* The pieces of the anchor stub with the given id.
AnchorStub(id) == <<"<", "a", " ", attr("id", id), ">", "</", "a", ">">>

\* Where the opening markup of a tag element starts in the output.
TagOpens(out) == {i \in 1..(Len(out) - 1) : out[i] = "<" /\ out[i + 1] \in Tags}

\* The place of the k-th of them.
TagOpen(out, k) ==
    CHOOSE i \in TagOpens(out) : Cardinality({j \in TagOpens(out) : j < i}) = k - 1

\* The pieces from..to of the output are an anchor stub.
IsAnchorStub(out, from, to) ==
    /\ from >= 1
    /\ SubSeq(out, from, from + 2) = <<"<", "a", " ">>
    /\ SubSeq(out, to - 2, to) = <<"</", "a", ">">>

\* C11: in the output of a paragraph, the opening markup of each tagged-span
\* item whose attribute list holds an Id comes directly after one anchor stub,
\* which carries the first Id of the list, and no second stub comes before
\* that one; the opening markup of a tagged-span item with no Id comes after
\* no anchor stub.
C11_AnchorBeforeTag ==
    (gen_node.node = "Paragraph" /\ gen_result = "Ok") =>
        LET out == gen_writer.out
            tags == SelectSeq(gen_node.items, IsTagItem)
        IN  /\ Cardinality(TagOpens(out)) = Len(tags)
            /\ \A k \in 1..Len(tags) :
                 LET i == TagOpen(out, k)
                     ids == SelectSeq(tags[k].attributes, IsId)
                 IN  /\ out[i + 1] = tags[k].tag
                     /\ IF ids # <<>>
                        THEN /\ i > 8
                             /\ SubSeq(out, i - 8, i - 1) = AnchorStub(ids[1].value)
                             /\ ~IsAnchorStub(out, i - 16, i - 9)
                        ELSE ~IsAnchorStub(out, i - 8, i - 1)

\* A tagged span with the ids b and a, in this order, was serialized.
C11_Witness ==
    /\ gen_node = ExTwoIds
    /\ gen_result = "Ok"
    /\ \E i \in 1..Len(gen_writer.out) : gen_writer.out[i] = attr("id", "b")

-----------------------------------------------------------------------------
(* C12 *)

ParagraphOpen == <<"<", "div", " ", attr("class", "paragraph"), ">", "<", "p", ">">>
ParagraphClose == <<"</", "p", ">", "</", "div", ">">>

\* What one item, rendered and serialized by itself, writes.
ItemPieces(it) == write(HtmlGen_item(it), Writer(-1)).out

\* The same for the items of a text, one after the other.
RECURSIVE ItemsPieces(_)
ItemsPieces(items) ==
    IF items = <<>> THEN <<>> ELSE ItemPieces(Head(items)) \o ItemsPieces(Tail(items))

ParagraphHi == Paragraph(<<Item_Word("hi")>>)

\* C12: the output of a paragraph is the opening of the div with the class
\* paragraph and of the p element, then what each item of its text serializes
\* to, in the order of the items, then the closing of p and div; for the
\* paragraph holding the word hi these are the bytes
\* <div class="paragraph"><p>hi</p></div>.
C12_ParagraphOutput ==
    (gen_node.node = "Paragraph" /\ gen_result = "Ok") =>
        /\ gen_writer.out = ParagraphOpen \o ItemsPieces(gen_node.items) \o ParagraphClose
        /\ gen_node = ParagraphHi =>
              Bytes(gen_writer.out) = "<div class=\"paragraph\"><p>hi</p></div>"

\* A paragraph of two different items, the word hi first, was serialized.
C12_Witness ==
    /\ gen_node = Paragraph(<<Item_Word("hi"), Item_Mark(Inner, <<>>)>>)
    /\ gen_result = "Ok"
    /\ Len(gen_writer.out) > Len(ParagraphOpen) + Len(ParagraphClose) + 1

-----------------------------------------------------------------------------
(* C13 *)

\* Both serializations of the tree wrote the same bytes, piece by piece.
C13_SameOutput ==
    (gen_result = "Ok" /\ gen_result2 = "Ok") =>
        /\ gen_writer2.out = gen_writer.out
        /\ Bytes(gen_writer2.out) = Bytes(gen_writer.out)

\* Once the tree is built, no step changes it.
C13_TreeUnchanged == gen_result # "" => gen_html' = gen_html

-----------------------------------------------------------------------------
(* C14 *)

\* What a sink that never fails receives for the node.
FullOutput == write(HtmlGen_node(gen_node), Writer(-1)).out

IsPrefix(s, t) == Len(s) <= Len(t) /\ s = SubSeq(t, 1, Len(s))

\* C14: when a write to the sink fails, gen returns the failure and issues
\* no write after the failed one, and what the sink accepted is the beginning
\* of the output a sink that never fails receives; gen returns a failure only
\* when a write failed.
C14_FailureAborts ==
    gen_result # "" =>
        /\ gen_writer.failed <=> gen_result = "Err"
        /\ gen_writer.late = 0
        /\ IsPrefix(gen_writer.out, FullOutput)
        /\ ~gen_writer.failed => gen_writer.out = FullOutput

\* The sink failed in the second item of a paragraph, after the opening
\* markup of a span: inside the children of tag_a.
C14_Witness ==
    /\ gen_node = Paragraph(<<Item_Word("hi"), Item_Mark(Inner, <<Role("r")>>)>>)
    /\ gen_result = "Err"
    /\ gen_writer.failed
    /\ Len(gen_writer.out) = Len(ParagraphOpen) + 6

-----------------------------------------------------------------------------
(* C15 *)

\* read_if_needed is about to run with the cursor at the filled length.
AtRefill == At("read_if_needed") /\ buffer_index >= buffer_size

\* A step reads from the source only at a refill; a refill that returns no
\* byte fails with Eof, and one that returns n > 0 bytes sets the filled
\* length to n and the cursor to 0; read_if_needed with the cursor before the
\* filled length reads nothing and succeeds.
C15_RefillStep ==
    /\ (rpos' # rpos \/ buffer' # buffer \/ buffer_size' # buffer_size) => AtRefill
    /\ AtRefill =>
         /\ rpos' = rpos <=> ret' = ErrEof
         /\ rpos' = rpos => buffer_size' = 0
         /\ rpos' > rpos =>
              /\ buffer_size' = rpos' - rpos
              /\ buffer_index' = 0
              /\ ret' = OkUnit
    /\ (At("read_if_needed") /\ ~AtRefill) => ret' = OkUnit

\* The pull that has just returned failed with Eof exactly when the source
\* returned no byte, which leaves the filled length 0.
C15_EofIffZeroRead ==
    (stack = <<>> /\ pulled # <<>>) =>
        (pulled[Len(pulled)].res = ErrEof <=> buffer_size = 0)

\* C15: the tokenizer reads from the source only when the cursor has reached
\* the filled length; a pull fails with Eof exactly when such a refill returns
\* zero bytes; a refill that returns n > 0 bytes sets the filled length to n
\* and the cursor to 0.
C15_Refill == []C15_EofIffZeroRead /\ [][C15_RefillStep]_vars

\* The source delivered three bytes in two reads at least, tokens were
\* returned, and the last pull failed with Eof at a refill of zero bytes.
C15_Witness ==
    /\ stack = <<>>
    /\ Len(src) = 3
    /\ src[2] # src[3]
    /\ buffer[0] = src[3]
    /\ buffer[1] = src[2]
    /\ buffer_size = 0
    /\ Len(pulled) >= 2
    /\ pulled[1].res.kind = "Ok"
    /\ pulled[Len(pulled)].res = ErrEof

-----------------------------------------------------------------------------
(* C16 *)

\* C16: the bytes of every Word token a pull returns are the bytes of the
\* source the pull consumed from the byte it classified as a word on, in
\* order, also when the source delivers them in two or more reads; and word()
\* never aborts on a buffer range that starts after its end.
C16_WordIsConsumedSpan ==
    /\ \A i \in 1..Len(pulled) :
         LET e == pulled[i]
         IN  e.res.token = "Word" => e.res.bytes = SubSeq(src, e.at + 1, e.to)
    /\ panic # "slice index starts after its end"

-----------------------------------------------------------------------------
(* C17 *)

\* C17: every pull that returns anything but Eof has moved the cursor over a
\* byte of the source at least, so that on a finite source a caller who goes
\* on pulling, past failures too, receives Eof after finitely many pulls: no
\* pull fails and leaves the cursor where it was, to fail again in the same
\* way for ever.
C17_EveryPullAdvances ==
    \A i \in 1..Len(pulled) :
        pulled[i].res # ErrEof => pulled[i].to > pulled[i].from

-----------------------------------------------------------------------------
(* C18 *)

\* The attribute string of a list: id="value" for an Id and class="value"
\* for a Role, one after the other in list order, with nothing between them.
RECURSIVE AttrString(_)
AttrString(attributes) ==
    IF attributes = <<>> THEN ""
    ELSE (IF Head(attributes).attr = "Id" THEN "id" ELSE "class")
           \o "=\"" \o Head(attributes).value \o "\"" \o AttrString(Tail(attributes))

\* What a mark item with the text x is to write.
MarkPieces(it) ==
    IF it.attributes = <<>>
    THEN <<"<", "mark", ">", "x", "</", "mark", ">">>
    ELSE <<"<", "span", " ", AttrString(it.attributes), ">", "x", "</", "span", ">">>

RECURSIVE MarksPieces(_)
MarksPieces(items) ==
    IF items = <<>> THEN <<>> ELSE MarkPieces(Head(items)) \o MarksPieces(Tail(items))

IsMarkItem(it) == it.item = "Mark"

OnlyMarks == gen_node.node = "Paragraph" /\ \A i \in 1..Len(gen_node.items) : IsMarkItem(gen_node.items[i])

\* C18: the attribute string of each item is the concatenation, in list
\* order and with nothing between them, of id="value" for each Id and
\* class="value" for each Role; within a paragraph, a mark item with no
\* attribute is written as a mark element around its text, and a mark item with
\* attributes as a span element with that attribute string, and no mark
\* element.
C18_AttributeString ==
    (gen_node.node = "Paragraph" /\ gen_result = "Ok") =>
        /\ \A i \in 1..Len(gen_node.items) :
             attributes_to_string(gen_node.items[i].attributes)
               = AttrString(gen_node.items[i].attributes)
        /\ OnlyMarks =>
             gen_writer.out = ParagraphOpen \o MarksPieces(gen_node.items) \o ParagraphClose

\* A mark with an Id and a Role, then a mark with no attribute, were serialized.
C18_Witness ==
    /\ gen_node = Paragraph(<<Item_Mark(Inner, <<Id("a"), Role("r")>>), Item_Mark(Inner, <<>>)>>)
    /\ gen_result = "Ok"
    /\ \E i \in 1..Len(gen_writer.out) : gen_writer.out[i] = "id=\"a\"class=\"r\""
    /\ \E i \in 1..Len(gen_writer.out) : gen_writer.out[i] = "mark"

-----------------------------------------------------------------------------
(* C19 *)

\* C19: once a pull has failed with Eof, every later pull fails with Eof too,
\* consumes nothing and leaves line and column as they were; no token is
\* returned after the first Eof.  (The source of the model returns zero bytes
\* from its end on.)
C19_EofIsSticky ==
    \A i, j \in 1..Len(pulled) :
        (i < j /\ pulled[i].res = ErrEof) =>
            /\ pulled[j].res = ErrEof
            /\ pulled[j].from = pulled[i].to
            /\ pulled[j].to = pulled[i].to
            /\ pulled[j].line = pulled[i].line
            /\ pulled[j].column = pulled[i].column

\* A token of the second line was returned, then two pulls failed with Eof.
C19_Witness ==
    /\ Len(pulled) >= 3
    /\ pulled[Len(pulled) - 2].res.kind = "Ok"
    /\ pulled[Len(pulled) - 1].res = ErrEof
    /\ pulled[Len(pulled)].res = ErrEof
    /\ pulled[Len(pulled)].line = 2

-----------------------------------------------------------------------------
(* C20 *)

\* C20: a pull that fails with UnexpectedChar has consumed the bytes of the
\* delimiter it matched, one at least, and not the deviating byte: the
\* deviating byte is the next byte of the source, the position reported and
\* the line and column of the tokenizer are those of that byte, the next pull
\* starts there and classifies that byte, and no token covers the bytes
\* matched.
C20_DeviatingByteKept ==
    \A i \in 1..Len(pulled) :
        LET e == pulled[i]
        IN  e.res.kind = "UnexpectedChar" =>
              /\ e.at >= 0 /\ e.to > e.at
              /\ \A k \in (e.at + 1)..e.to : src[k] = e.res.expected
              /\ e.to < Len(src) /\ src[e.to + 1] = e.res.byte
              /\ e.res.pos = PosOf(Prefix(e.to))
              /\ <<e.line, e.column>> = PosOf(Prefix(e.to))
              /\ i < Len(pulled) =>
                   /\ pulled[i + 1].from = e.to
                   /\ pulled[i + 1].at >= e.to
                   /\ e.res.byte \notin {"/", "\r"} => pulled[i + 1].at = e.to
              /\ \A j \in 1..Len(pulled) :
                   pulled[j].res.kind = "Ok" =>
                       pulled[j].to <= e.at \/ pulled[j].from >= e.to

\* A pull failed on a space after two <, and the next pull returned the
\* Space token.
C20_Witness ==
    \E i \in 1..(Len(pulled) - 1) :
        /\ pulled[i].res.kind = "UnexpectedChar"
        /\ pulled[i].res.byte = " "
        /\ pulled[i].to = pulled[i].at + 2
        /\ pulled[i + 1].res = Space

====
